---------------------------- MODULE Spec2Model ----------------------------
(***************************************************************************)
(* A model of the three conference spiders of papers_scrapper/spiders:     *)
(* NDSSSpider (ndss.py), OsdiSpider (osdi.py) and UsenixSpider (usenix.py).*)
(*                                                                         *)
(* A fetched page is modelled by what the spiders' XPath queries see of    *)
(* it: its anchors, its meta tags, its text nodes, its paper blocks.  The   *)
(* crawling framework is modelled by a bag of pending requests, any one of *)
(* which may be delivered next (with any page as its response) or dropped. *)
(* Python's None is the empty sequence and a value v is <<v>>, so that the  *)
(* result of selector.get() is the first element, if any, of getall().     *)
(***************************************************************************)
EXTENDS Integers, Sequences, FiniteSets, Bags, TLC

(***************************************************************************)
(* Bounds of the model.                                                    *)
(***************************************************************************)
\* The most anchors a modelled NDSS or OSDI page holds.
MaxLinks == 2
\* The most paper blocks a modelled USENIX listing page holds.
MaxBlocks == 2

(***************************************************************************)
(* Python values and string methods, as the spiders use them.              *)
(***************************************************************************)
None == << >>

\* Python's truth test of an optional string: None and '' are false.
Truthy(o) == o # None /\ o[1] # ""

\* selector.get(): the first match, or None.
Get(matches) == IF matches = << >> THEN None ELSE << matches[1] >>

IsSpace(c) == c \in {" ", "\t", "\n"}

\* sub in s
Contains(s, sub) ==
    \E i \in 1..(Len(s) - Len(sub) + 1) : SubSeq(s, i, i + Len(sub) - 1) = sub

RECURSIVE Replace(_, _, _)
\* s.replace(old, new), old non-empty: every occurrence, leftmost first.
Replace(s, old, new) ==
    IF Len(s) < Len(old) THEN s
    ELSE IF SubSeq(s, 1, Len(old)) = old
         THEN new \o Replace(SubSeq(s, Len(old) + 1, Len(s)), old, new)
         ELSE SubSeq(s, 1, 1) \o Replace(SubSeq(s, 2, Len(s)), old, new)

RECURSIVE LStrip(_)
LStrip(s) ==
    IF Len(s) > 0 /\ IsSpace(SubSeq(s, 1, 1)) THEN LStrip(SubSeq(s, 2, Len(s))) ELSE s

RECURSIVE RStrip(_)
RStrip(s) ==
    IF Len(s) > 0 /\ IsSpace(SubSeq(s, Len(s), Len(s)))
    THEN RStrip(SubSeq(s, 1, Len(s) - 1)) ELSE s

\* s.strip()
Strip(s) == LStrip(RStrip(s))

RECURSIVE Join(_, _)
\* sep.join(parts)
Join(sep, parts) ==
    IF parts = << >> THEN ""
    ELSE IF Len(parts) = 1 THEN parts[1]
         ELSE parts[1] \o sep \o Join(sep, Tail(parts))

RECURSIVE CollapseSpaces(_)
\* Every run of white space becomes one space.
CollapseSpaces(s) ==
    IF s = "" THEN ""
    ELSE IF IsSpace(SubSeq(s, 1, 1))
         THEN " " \o CollapseSpaces(LStrip(s))
         ELSE SubSeq(s, 1, 1) \o CollapseSpaces(SubSeq(s, 2, Len(s)))

\* XPath normalize-space(): stripped, inner runs of white space collapsed.
NormalizeSpace(s) == CollapseSpaces(Strip(s))

\* [p.strip() for p in parts]
MapStrip(parts) == [i \in 1..Len(parts) |-> Strip(parts[i])]

RECURSIVE SeqToBag(_)
\* The bag of the elements of a sequence.
SeqToBag(s) ==
    IF s = << >> THEN EmptyBag ELSE SetToBag({Head(s)}) (+) SeqToBag(Tail(s))

RECURSIVE Concat(_)
\* The concatenation of a sequence of sequences.
Concat(ss) == IF ss = << >> THEN << >> ELSE Head(ss) \o Concat(Tail(ss))

\* The subsequences of catalogue cat, in its order, of at most n elements.
SubSeqsOf(cat, n) ==
    { LET idx == SelectSeq([i \in 1..Len(cat) |-> i], LAMBDA i : i \in S)
      IN  [k \in 1..Len(idx) |-> cat[idx[k]]] :
          S \in {T \in SUBSET (1..Len(cat)) : Cardinality(T) <= n} }

(***************************************************************************)
(* URLs.  A href is absolute when it names a scheme, and otherwise         *)
(* relative to the root of the page's site.                                *)
(***************************************************************************)
IsAbsolute(href) == Contains(href, "://")

RECURSIVE OriginEnd(_, _)
\* The index of the last character of the scheme and host of absolute url u.
OriginEnd(u, i) ==
    IF i > Len(u) THEN Len(u)
    ELSE IF SubSeq(u, i, i) = "/" THEN i - 1 ELSE OriginEnd(u, i + 1)

SchemeEnd(u) == CHOOSE i \in 1..Len(u) : SubSeq(u, i, i + 2) = "://"
                    /\ \A j \in 1..(i - 1) : SubSeq(u, j, j + 2) # "://"

Origin(u) == SubSeq(u, 1, OriginEnd(u, SchemeEnd(u) + 3))

\* response.urljoin(href), for absolute and root-relative hrefs.
Urljoin(base, href) ==
    IF href = "" THEN base
    ELSE IF IsAbsolute(href) THEN href
         ELSE Origin(base) \o href


(***************************************************************************)
(* The helpers the spiders inherit from BaseSpider (base_spider.py).       *)
(***************************************************************************)
RECURSIVE StripTags(_)
\* The text of a markup fragment: every <...> tag removed.
StripTags(s) ==
    IF s = "" THEN ""
    ELSE IF SubSeq(s, 1, 1) = "<" /\ Contains(s, ">")
         THEN LET close == CHOOSE i \in 1..Len(s) :
                               /\ SubSeq(s, i, i) = ">"
                               /\ \A j \in 1..(i - 1) : SubSeq(s, j, j) # ">"
              IN  StripTags(SubSeq(s, close + 1, Len(s)))
         ELSE SubSeq(s, 1, 1) \o StripTags(SubSeq(s, 2, Len(s)))

\* BaseSpider.clean_html_tags
clean_html_tags(text) == StripTags(text)

\* BaseSpider.clean_extra_whitespaces
clean_extra_whitespaces(text) == NormalizeSpace(text)

\* BaseSpider.clean_quotes: a typographic quote, written ~ in the modelled
\* texts, becomes the straight quote.
clean_quotes(text) == Replace(text, "~", "'")

\* BaseSpider.__init__(conference, year): the spider remembers both.
BaseSpider_init(name, conference, year) ==
    [name |-> name, conference |-> conference, year |-> year]

(***************************************************************************)
(* What a callback yields: the requests and the items, in order, the       *)
(* levels of the warnings and errors it logs, and whether it ends by an     *)
(* exception.                                                              *)
(***************************************************************************)
Out(reqs, its, log) == [reqs |-> reqs, items |-> its, log |-> log, raised |-> FALSE]

\* A callback that raises, after it has yielded what it yielded before.
Raises(out) == [out EXCEPT !.raised = TRUE]

Nothing == Out(<< >>, << >>, << >>)

RECURSIVE OutConcat(_)
\* The yields of a loop: those of its iterations, one after the other.
OutConcat(outs) ==
    IF outs = << >> THEN Nothing
    ELSE IF Head(outs).raised THEN Head(outs)
    ELSE LET rest == OutConcat(Tail(outs))
         IN  [reqs |-> Head(outs).reqs \o rest.reqs, items |-> Head(outs).items \o rest.items,
              log |-> Head(outs).log \o rest.log, raised |-> rest.raised]

\* A request made without meta.
NoMeta == << >>

\* scrapy.Request(url, callback, meta, dont_filter)
Request(url, callback, meta, dont_filter) ==
    [url |-> url, callback |-> callback, meta |-> meta, dont_filter |-> dont_filter]

\* PdfFilesItem with its seven fields set.
PdfFilesItem(title, authors, abstract, abstract_url, pdf_url, file_urls, source_url) ==
    [title |-> title, authors |-> authors, abstract |-> abstract,
     abstract_url |-> abstract_url, pdf_url |-> pdf_url, file_urls |-> file_urls,
     source_url |-> source_url]

(***************************************************************************)
(* OsdiSpider (osdi.py).                                                   *)
(***************************************************************************)
OsdiStartUrls == << "https://www.usenix.org/conference/osdi23/technical-sessions" >>

OsdiDefaultYear == "2023"

\* OsdiSpider.__init__(conference='osdi', year='2023')
OsdiSpider_init(year) ==
    [raised |-> FALSE,
     spider |-> BaseSpider_init("osdi", "osdi", IF year = None THEN OsdiDefaultYear ELSE year[1])]

OsdiSpider_start_requests(self) ==
    [i \in 1..Len(OsdiStartUrls) |->
        Request(OsdiStartUrls[i], "OsdiSpider.parse", NoMeta, TRUE)]

\* //a[contains(@href, "/presentation") or contains(@href, "/presentations")]/@href
OsdiPaperLinks(page) ==
    SelectSeq(page.hrefs,
              LAMBDA h : Contains(h, "/presentation") \/ Contains(h, "/presentations"))

\* item['file_urls'] = [pdf_url] if pdf_url else []
OsdiFileUrls(pdf_url) == IF Truthy(pdf_url) THEN << pdf_url[1] >> ELSE << >>

\* The item parse_paper builds from the citation meta tags of the response.
OsdiPaperItem(response) ==
    LET page     == response.page
        title    == Get(page.citation_title)
        authors  == page.citation_author
        abstract == Get(page.description)
        pdf_url  == Get(page.citation_pdf_url)
    IN  PdfFilesItem(
            IF Truthy(title) THEN clean_html_tags(title[1]) ELSE "",
            IF authors # << >> THEN Join(", ", authors) ELSE "",
            IF Truthy(abstract) THEN clean_html_tags(abstract[1]) ELSE "",
            response.url,
            IF Truthy(pdf_url) THEN pdf_url[1] ELSE "",
            OsdiFileUrls(pdf_url),
            response.url)

\* OsdiSpider.parse_paper that goes on to follow the page's presentation links.
OsdiSpider_parse_paper_follows(self, response) ==
    LET paper_links == OsdiPaperLinks(response.page)
    IN  Out([i \in 1..Len(paper_links) |->
                Request(Urljoin(response.url, paper_links[i]),
                        "OsdiSpider.parse_paper", NoMeta, TRUE)],
            << OsdiPaperItem(response) >>, << >>)

\* OsdiSpider.parse_paper
OsdiSpider_parse_paper(self, response) ==
    Out(<< >>, << OsdiPaperItem(response) >>, << >>)

\* OsdiSpider.parse without its else branch.
OsdiSpider_parse_no_fallback(self, response) ==
    LET paper_links == OsdiPaperLinks(response.page)
    IN  Out([i \in 1..Len(paper_links) |->
                Request(Urljoin(response.url, paper_links[i]),
                        "OsdiSpider.parse_paper", NoMeta, TRUE)],
            << >>, << >>)

\* OsdiSpider.parse
OsdiSpider_parse(self, response) ==
    LET paper_links == OsdiPaperLinks(response.page)
    IN  IF paper_links # << >>
        THEN Out([i \in 1..Len(paper_links) |->
                     Request(Urljoin(response.url, paper_links[i]),
                             "OsdiSpider.parse_paper", NoMeta, TRUE)],
                 << >>, << >>)
        ELSE OsdiSpider_parse_paper(self, response)

\* The anchors' hrefs of the modelled OSDI pages.
OsdiHrefs ==
    << "/conference/osdi23/presentation/a",
       "https://www.usenix.org/conference/osdi23/presentation/b",
       "/conference/osdi23/technical-sessions" >>

\* The citation meta tags of the modelled OSDI pages.
OsdiMetas ==
    { [citation_title |-> << >>, citation_author |-> << >>, description |-> << >>,
       citation_pdf_url |-> << >>],
      [citation_title |-> << "Paper <i>A</i>" >>,
       citation_author |-> << "Alice A.", "Bob B." >>,
       description |-> << "We study <b>A</b>." >>,
       citation_pdf_url |-> << "https://www.usenix.org/system/files/osdi23-a.pdf" >>],
      [citation_title |-> << "Paper B" >>, citation_author |-> << "Carol C." >>,
       description |-> << "" >>, citation_pdf_url |-> << "" >>] }

OsdiPages ==
    { [hrefs |-> hs, citation_title |-> m.citation_title,
       citation_author |-> m.citation_author, description |-> m.description,
       citation_pdf_url |-> m.citation_pdf_url] :
          hs \in SubSeqsOf(OsdiHrefs, MaxLinks), m \in OsdiMetas }

(***************************************************************************)
(* UsenixSpider (usenix.py).                                               *)
(***************************************************************************)
UsenixStartUrls ==
    << "https://www.usenix.org/conference/usenixsecurity24/summer-accepted-papers",
       "https://www.usenix.org/conference/usenixsecurity24/fall-accepted-papers" >>

\* item['source_url'] = 12
UsenixSourceId == 12

\* UsenixSpider.__init__(conference='', year='')
UsenixSpider_init(year) ==
    [raised |-> FALSE,
     spider |-> BaseSpider_init("usenix", "", IF year = None THEN "" ELSE year[1])]

UsenixSpider_start_requests(self) ==
    [i \in 1..Len(UsenixStartUrls) |->
        Request(UsenixStartUrls[i], "UsenixSpider.parse", [dont_redirect |-> TRUE], TRUE)]

\* scrapy.Selector(text=html).xpath('string(.)').get(): the text of the markup.
StringValue(html) == StripTags(html)

\* One turn of the loop of parse over the paper blocks.
UsenixParseBlock(response, paper) ==
    LET title            == Get(paper.h2_a_text)
        presentation_url == Get(paper.h2_a_href)
        authors_html     == Get(paper.people_p)
        authors          == IF Truthy(authors_html) THEN StringValue(authors_html[1]) ELSE ""
        abstract_html    == Get(paper.description_p)
        abstract         == IF Truthy(abstract_html) THEN StringValue(abstract_html[1]) ELSE ""
    IN  IF Truthy(presentation_url)
        THEN Out(<< Request(Urljoin(response.url, presentation_url[1]),
                            "UsenixSpider.parse_presentation",
                            [title |-> IF Truthy(title) THEN clean_html_tags(title[1]) ELSE "",
                             authors |-> IF authors # "" THEN clean_html_tags(authors) ELSE "",
                             abstract |-> IF abstract # "" THEN clean_html_tags(abstract) ELSE "",
                             abstract_url |-> Urljoin(response.url, presentation_url[1])],
                            TRUE) >>,
                 << >>, << >>)
        ELSE Out(<< >>, << >>, << "warning" >>)

\* UsenixSpider.parse whose abstract_html, not reset in the loop, stays the
\* previous block's when a block has no description paragraph.
UsenixSpider_parse_stale(self, response) ==
    LET papers == response.page.papers
        stale  == [i \in 1..Len(papers) |->
                      IF i > 1 /\ papers[i].description_p = << >>
                      THEN [papers[i] EXCEPT !.description_p = papers[i - 1].description_p]
                      ELSE papers[i]]
    IN  OutConcat([i \in 1..Len(papers) |-> UsenixParseBlock(response, stale[i])])

\* UsenixSpider.parse that leaves the loop at the first block without a link.
UsenixSpider_parse_stops(self, response) ==
    LET papers == response.page.papers
        ok(i)  == \A j \in 1..i : Truthy(Get(papers[j].h2_a_href))
    IN  OutConcat([i \in 1..Len(papers) |->
                      IF ok(i) THEN UsenixParseBlock(response, papers[i]) ELSE Nothing])

\* UsenixSpider.parse
UsenixSpider_parse(self, response) ==
    LET papers == response.page.papers
        found  == IF Len(papers) = 0 THEN Out(<< >>, << >>, << "warning" >>) ELSE Nothing
    IN  OutConcat(<< found >> \o
                  [i \in 1..Len(papers) |-> UsenixParseBlock(response, papers[i])])

\* UsenixSpider.parse_presentation that yields nothing when it finds no PDF.
UsenixSpider_parse_presentation_skips(self, response) ==
    LET page    == response.page
        meta    == Get(page.citation_pdf_url)
        found   == IF ~Truthy(meta) THEN Get(page.final_paper_pdf_href) ELSE meta
    IN  IF Truthy(found)
        THEN Out(<< >>,
                 << PdfFilesItem(response.meta.title, response.meta.authors,
                                 response.meta.abstract, response.meta.abstract_url,
                                 Urljoin(response.url, found[1]),
                                 << Urljoin(response.url, found[1]) >>, UsenixSourceId) >>,
                 << >>)
        ELSE Out(<< >>, << >>, << "warning" >>)

\* item['file_urls'] = [pdf_url] if pdf_url else []
UsenixFileUrls(pdf_url) == IF Truthy(pdf_url) THEN << pdf_url[1] >> ELSE << >>

\* UsenixSpider.parse_presentation
UsenixSpider_parse_presentation(self, response) ==
    LET page    == response.page
        meta    == Get(page.citation_pdf_url)
        found   == IF ~Truthy(meta) THEN Get(page.final_paper_pdf_href) ELSE meta
        pdf_url == IF Truthy(found) THEN << Urljoin(response.url, found[1]) >> ELSE found
    IN  Out(<< >>,
            << PdfFilesItem(response.meta.title, response.meta.authors,
                            response.meta.abstract, response.meta.abstract_url,
                            IF Truthy(pdf_url) THEN pdf_url[1] ELSE "",
                            UsenixFileUrls(pdf_url),
                            UsenixSourceId) >>,
            IF Truthy(found) THEN << >> ELSE << "warning" >>)

\* The paper blocks (article.node-paper) of the modelled listing pages: a full
\* one, one without a detail link, and one with the first one's detail page
\* under its absolute URL and an empty description container.
UsenixBlocks ==
    << [h2_a_text |-> << "Paper One" >>,
        h2_a_href |-> << "/conference/usenixsecurity24/presentation/one" >>,
        people_p |-> << "<p>Alice A., <em>Univ X</em></p>" >>,
        description_p |-> << "<p>We study <b>one</b>.</p>" >>],
       [h2_a_text |-> << "Paper Three" >>,
        h2_a_href |-> << >>,
        people_p |-> << "<p>Carol C.</p>" >>,
        description_p |-> << "<p>We study three.</p>" >>],
       [h2_a_text |-> << "Paper Two" >>,
        h2_a_href |-> << "https://www.usenix.org/conference/usenixsecurity24/presentation/one" >>,
        people_p |-> << "<p>Bob B.</p>" >>,
        description_p |-> << >>] >>

\* The PDF links of the modelled detail pages: the citation_pdf_url meta tags
\* and the links of the final-paper field.
UsenixPdfLinks ==
    { [citation_pdf_url |-> << "https://www.usenix.org/system/files/one.pdf" >>,
       final_paper_pdf_href |-> << "/system/files/other.pdf" >>],
      [citation_pdf_url |-> << >>, final_paper_pdf_href |-> << "/system/files/two.pdf" >>],
      [citation_pdf_url |-> << "" >>, final_paper_pdf_href |-> << >>] }

UsenixPages ==
    { [papers |-> ps, citation_pdf_url |-> << >>, final_paper_pdf_href |-> << >>] :
          ps \in SubSeqsOf(UsenixBlocks, MaxBlocks) }
    \cup
    { [papers |-> << >>, citation_pdf_url |-> d.citation_pdf_url,
       final_paper_pdf_href |-> d.final_paper_pdf_href] : d \in UsenixPdfLinks }

(***************************************************************************)
(* NDSSSpider (ndss.py).                                                   *)
(***************************************************************************)
NdssStartUrls == << "https://www.ndss-symposium.org/previous-ndss-symposia/" >>

\* item['source_url'] = 13
NdssSourceId == 13

\* NDSSSpider.__init__ without its test of year.
NDSSSpider_init_unchecked(year) ==
    [raised |-> FALSE,
     spider |-> BaseSpider_init("ndss", "ndss", IF year = None THEN "" ELSE year[1])]

\* NDSSSpider.__init__(conference='ndss', year=''): year is required.
NDSSSpider_init(year) ==
    LET y == IF year = None THEN "" ELSE year[1]
    IN  [raised |-> (y = ""), spider |-> BaseSpider_init("ndss", "ndss", y)]

NDSSSpider_start_requests(self) ==
    [i \in 1..Len(NdssStartUrls) |->
        Request(NdssStartUrls[i], "NDSSSpider.parse", NoMeta, FALSE)]

\* //a[...]/@href: the href attributes, in document order, of the anchors
\* selected (an anchor without the attribute gives none).
Hrefs(anchors) == Concat([i \in 1..Len(anchors) |-> anchors[i].href])

\* //a[contains(@class, "wp-block-button__link") and normalize-space()="{year}"]/@href
SelYearLink(page, year) ==
    Hrefs(SelectSeq(page.anchors,
                    LAMBDA a : /\ Contains(a.class, "wp-block-button__link")
                               /\ NormalizeSpace(a.text) = year))

\* //a[strong[contains(text(), "Accepted Papers")]]/@href
SelAcceptedPapers(page) ==
    Hrefs(SelectSeq(page.anchors,
                    LAMBDA a : a.strong # << >> /\ Contains(a.strong[1], "Accepted Papers")))

\* //a[@class="paper-link-abs"]/@href
SelPaperLinkAbs(page) ==
    Hrefs(SelectSeq(page.anchors, LAMBDA a : a.class = "paper-link-abs"))

\* //a[strong[text()="Read More"]]/@href
SelReadMore(page) ==
    Hrefs(SelectSeq(page.anchors, LAMBDA a : a.strong = << "Read More" >>))

\* //a[contains(@class, "pdf-button")]/@href
SelPdfButton(page) ==
    Hrefs(SelectSeq(page.anchors, LAMBDA a : Contains(a.class, "pdf-button")))

\* //p[@class="ndss_downloads"]//a/@href
SelDownloads(page) ==
    Hrefs(SelectSeq(page.anchors, LAMBDA a : a.in_downloads))

\* NDSSSpider.parse without its test of year_link: response.follow(None) raises,
\* and an empty href is followed to the page itself.
NDSSSpider_parse_unguarded(self, response) ==
    LET year_link ==
            Get(SelYearLink(response.page, self.year))
    IN  IF year_link = None
        THEN Raises(Nothing)
        ELSE Out(<< Request(Urljoin(response.url, year_link[1]),
                            "NDSSSpider.parse_year_page", [year |-> self.year], FALSE) >>,
                 << >>, << >>)

\* NDSSSpider.parse
NDSSSpider_parse(self, response) ==
    LET year_link ==
            Get(SelYearLink(response.page, self.year))
    IN  IF Truthy(year_link)
        THEN Out(<< Request(Urljoin(response.url, year_link[1]),
                            "NDSSSpider.parse_year_page", [year |-> self.year], FALSE) >>,
                 << >>, << >>)
        ELSE Out(<< >>, << >>, << "error" >>)

\* NDSSSpider.parse_paper_list
NDSSSpider_parse_paper_list(self, response) ==
    LET primary  == SelPaperLinkAbs(response.page)
        fallback == SelReadMore(response.page)
        links    == IF primary = << >> THEN fallback ELSE primary
    IN  IF links = << >>
        THEN Out(<< >>, << >>, << "error" >>)
        ELSE Out([i \in 1..Len(links) |->
                     Request(Urljoin(response.url, links[i]),
                             "NDSSSpider.parse_paper_details", response.meta, FALSE)],
                 << >>, << >>)

\* NDSSSpider.parse_year_page that gives up when the link is missing.
NDSSSpider_parse_year_page_stops(self, response) ==
    LET accepted_papers_link ==
            Get(SelAcceptedPapers(response.page))
    IN  IF Truthy(accepted_papers_link)
        THEN Out(<< Request(Urljoin(response.url, accepted_papers_link[1]),
                            "NDSSSpider.parse_paper_list", response.meta, FALSE) >>,
                 << >>, << >>)
        ELSE Out(<< >>, << >>, << "warning" >>)

\* NDSSSpider.parse_year_page
NDSSSpider_parse_year_page(self, response) ==
    LET accepted_papers_link ==
            Get(SelAcceptedPapers(response.page))
    IN  IF Truthy(accepted_papers_link)
        THEN Out(<< Request(Urljoin(response.url, accepted_papers_link[1]),
                            "NDSSSpider.parse_paper_list", response.meta, FALSE) >>,
                 << >>, << >>)
        ELSE LET rest == NDSSSpider_parse_paper_list(self, response)
             IN  OutConcat(<< Out(<< >>, << >>, << "warning" >>), rest >>)

\* NdssFileUrls without its test: the list always holds the URL.
NdssFileUrlsAlways(full_pdf_url) == << full_pdf_url >>

\* item['file_urls'] = [full_pdf_url] if full_pdf_url else []
NdssFileUrls(full_pdf_url) == IF full_pdf_url # "" THEN << full_pdf_url >> ELSE << >>

\* NDSSSpider.parse_paper_details
NDSSSpider_parse_paper_details(self, response) ==
    LET page     == response.page
        title    == Get(page.og_title)
        strong   == Get(page.p_strong_text)
        authors  == IF ~Truthy(strong) \/ ~Contains(strong[1], "(")
                    THEN Strip(Replace(Join("", page.ndss_authors_text), "Author(s):", ""))
                    ELSE strong[1]
        parts    == IF page.strong_sibling_p_text = << >>
                    THEN page.h2_abstract_p_text
                    ELSE page.strong_sibling_p_text
        abstract == Join(" ", MapStrip(parts))
        button   == Get(SelPdfButton(page))
        pdf_url  == IF ~Truthy(button)
                    THEN Get(SelDownloads(page))
                    ELSE button
        full_pdf_url == IF Truthy(pdf_url) THEN Urljoin(response.url, pdf_url[1]) ELSE ""
    IN  Out(<< >>,
            << PdfFilesItem(
                 IF Truthy(title)
                 THEN clean_quotes(Strip(Replace(title[1], "- NDSS Symposium", "")))
                 ELSE "",
                 IF authors # "" THEN Strip(clean_html_tags(authors)) ELSE "",
                 IF abstract # "" THEN clean_extra_whitespaces(abstract) ELSE "",
                 response.url,
                 full_pdf_url,
                 NdssFileUrls(full_pdf_url),
                 NdssSourceId) >>,
            << >>)

Anchor(class, text, strong, href, in_downloads) ==
    [class |-> class, text |-> text, strong |-> strong, href |-> href,
     in_downloads |-> in_downloads]

\* The anchors of the modelled NDSS pages.
NdssAnchors ==
    << Anchor("wp-block-button__link", "2025", << >>, << "" >>, FALSE),
       Anchor("wp-block-button__link wp-element-button", " 2025 ", << >>,
              << "/ndss2025/" >>, FALSE),
       Anchor("wp-block-button__link", "2024", << >>,
              << "https://www.ndss-symposium.org/ndss2024/" >>, FALSE),
       Anchor("", "More details Accepted Papers", << "More details Accepted Papers" >>,
              << "/ndss2025/accepted-papers/" >>, FALSE),
       Anchor("paper-link-abs", "More Details", << >>, << "/ndss-paper/a/" >>, FALSE),
       Anchor("paper-link-abs", "More Details", << >>,
              << "https://www.ndss-symposium.org/ndss-paper/b/" >>, FALSE),
       Anchor("", "Read More", << "Read More" >>, << "/ndss-paper/c/" >>, FALSE),
       Anchor("btn pdf-button", "Paper", << >>, << "/wp-content/uploads/a.pdf" >>, FALSE),
       Anchor("", "Paper", << >>,
              << "https://www.ndss-symposium.org/wp-content/uploads/b.pdf" >>, TRUE) >>

\* The texts of the modelled NDSS pages.
NdssTexts ==
    { [og_title |-> << >>, p_strong_text |-> << >>, ndss_authors_text |-> << >>,
       strong_sibling_p_text |-> << >>, h2_abstract_p_text |-> << >>],
      [og_title |-> << "Paper ~A~ - NDSS Symposium" >>,
       p_strong_text |-> << "Alice A. (Univ X), Bob B. (Univ Y)" >>,
       ndss_authors_text |-> << >>,
       strong_sibling_p_text |-> << " First part. ", "Second  part." >>,
       h2_abstract_p_text |-> << >>],
      [og_title |-> << "Paper B" >>,
       p_strong_text |-> << "Download" >>,
       ndss_authors_text |-> << "Author(s): ", "Carol C." >>,
       strong_sibling_p_text |-> << >>,
       h2_abstract_p_text |-> << "Only  abstract." >>] }

NdssPage(anchors, t) ==
    [anchors |-> anchors, og_title |-> t.og_title, p_strong_text |-> t.p_strong_text,
     ndss_authors_text |-> t.ndss_authors_text,
     strong_sibling_p_text |-> t.strong_sibling_p_text,
     h2_abstract_p_text |-> t.h2_abstract_p_text]

\* Index pages (anchors, no paper texts) and detail pages (texts, PDF anchors).
NdssPages ==
    { NdssPage(as, CHOOSE t \in NdssTexts : t.og_title = << >>) :
          as \in SubSeqsOf(NdssAnchors, MaxLinks) }
    \cup
    { NdssPage(as, t) :
          as \in SubSeqsOf(SubSeq(NdssAnchors, 8, 9), MaxLinks), t \in NdssTexts }

(***************************************************************************)
(* The run of one spider under the crawling framework.                     *)
(***************************************************************************)
VARIABLES
    argv,       \* the command line: the spider's name and its -a year argument
    phase,      \* "new", "failed" (construction raised), "opened", "running"
    spider,     \* None, or << the constructed spider >>
    pending,    \* the bag of the requests scheduled and not yet answered
    items,      \* the bag of the items yielded so far
    handled,    \* None, or << the latest callback call: the callback and its response >>
    yielded,    \* what the latest callback call yielded
    listed      \* the paper blocks UsenixSpider.parse has gone through, with their page's URL

vars == << argv, phase, spider, pending, items, handled, yielded, listed >>

\* The command lines of the modelled runs.  The -a year argument is omitted,
\* empty, or a year.
CommandLines ==
    [name : {"ndss"}, year : {None, << "" >>, << "2025" >>}]
    \cup [name : {"osdi"}, year : {None, << "2025" >>}]
    \cup [name : {"usenix"}, year : {None, << "2024" >>}]

\* scrapy crawl <name> [-a year=<year>]: the spider class is called.
SpiderInit(name, year) ==
    CASE name = "ndss"   -> NDSSSpider_init(year)
      [] name = "osdi"   -> OsdiSpider_init(year)
      [] name = "usenix" -> UsenixSpider_init(year)

StartRequests(self) ==
    CASE self.name = "ndss"   -> NDSSSpider_start_requests(self)
      [] self.name = "osdi"   -> OsdiSpider_start_requests(self)
      [] self.name = "usenix" -> UsenixSpider_start_requests(self)

\* The call of the callback a request names.
Callback(name, self, response) ==
    CASE name = "NDSSSpider.parse"                -> NDSSSpider_parse(self, response)
      [] name = "NDSSSpider.parse_year_page"      -> NDSSSpider_parse_year_page(self, response)
      [] name = "NDSSSpider.parse_paper_list"     -> NDSSSpider_parse_paper_list(self, response)
      [] name = "NDSSSpider.parse_paper_details"  -> NDSSSpider_parse_paper_details(self, response)
      [] name = "OsdiSpider.parse"                -> OsdiSpider_parse(self, response)
      [] name = "OsdiSpider.parse_paper"          -> OsdiSpider_parse_paper(self, response)
      [] name = "UsenixSpider.parse"              -> UsenixSpider_parse(self, response)
      [] name = "UsenixSpider.parse_presentation" -> UsenixSpider_parse_presentation(self, response)

\* The pages a site may answer with.
Pages(name) ==
    CASE name = "ndss"   -> NdssPages
      [] name = "osdi"   -> OsdiPages
      [] name = "usenix" -> UsenixPages

\* A request as scheduled: with the length of the chain of fetches it ends.
Scheduled(reqs, depth) ==
    SeqToBag([i \in 1..Len(reqs) |->
                 [url |-> reqs[i].url, callback |-> reqs[i].callback,
                  meta |-> reqs[i].meta, dont_filter |-> reqs[i].dont_filter,
                  depth |-> depth]])

Init ==
    /\ argv \in CommandLines
    /\ phase = "new"
    /\ spider = None
    /\ pending = EmptyBag
    /\ items = EmptyBag
    /\ handled = None
    /\ yielded = Nothing
    /\ listed = {}

\* The spider is constructed; a raise ends the run before it starts.
Construct ==
    /\ phase = "new"
    /\ LET made == SpiderInit(argv.name, argv.year)
       IN  IF made.raised
           THEN phase' = "failed" /\ spider' = None
           ELSE phase' = "opened" /\ spider' = << made.spider >>
    /\ UNCHANGED << argv, pending, items, handled, yielded, listed >>

\* The framework schedules what start_requests yields.
Start ==
    /\ phase = "opened"
    /\ phase' = "running"
    /\ pending' = Scheduled(StartRequests(spider[1]), 1)
    /\ UNCHANGED << argv, spider, items, handled, yielded, listed >>

\* The framework answers request req with page: the callback req names runs on
\* the response, its requests are scheduled and its items collected.
Deliver(req, page) ==
    /\ phase = "running"
    /\ BagIn(req, pending)
    /\ LET response == [url |-> req.url, page |-> page, meta |-> req.meta]
           out      == Callback(req.callback, spider[1], response)
       IN  /\ handled' = << [callback |-> req.callback, response |-> response,
                             depth |-> req.depth] >>
           /\ yielded' = out
           /\ pending' = (pending (-) SetToBag({req})) (+) Scheduled(out.reqs, req.depth + 1)
           /\ items' = items (+) SeqToBag(out.items)
           /\ listed' = IF req.callback = "UsenixSpider.parse"
                        THEN listed \cup { [url |-> req.url, paper |-> page.papers[i]] :
                                               i \in 1..Len(page.papers) }
                        ELSE listed
    /\ UNCHANGED << argv, phase, spider >>

\* The framework gives up a request (a duplicate it filters, an off-site URL, a
\* failed download): no callback runs.
Drop(req) ==
    /\ phase = "running"
    /\ BagIn(req, pending)
    /\ pending' = pending (-) SetToBag({req})
    /\ UNCHANGED << argv, phase, spider, items, handled, yielded, listed >>

\* One step of the framework on a pending request.
Serve ==
    \E req \in BagToSet(pending) :
        \/ Drop(req)
        \/ \E page \in Pages(argv.name) : Deliver(req, page)

Next ==
    \/ Construct
    \/ Start
    \/ Serve

Spec == Init /\ [][Next]_vars

\* The framework goes on while it can: the spider is constructed and started,
\* and every pending request is in the end answered or given up.
LiveSpec == Spec /\ WF_vars(Construct) /\ WF_vars(Start) /\ WF_vars(Serve)

(***************************************************************************)
(* The properties checked of the spiders.                                  *)
(***************************************************************************)
\* The latest callback call is one of callback cb.
Called(cb) == handled # None /\ handled[1].callback = cb

Emitted == BagToSet(items)

\* The run is over: construction raised, or nothing is pending any more.
Finished == phase = "failed" \/ (phase = "running" /\ pending = EmptyBag)

\* C1: in every reachable state of a run of any of the three spiders, every
\* item emitted so far has file_urls non-empty if and only if pdf_url is
\* non-empty, and a non-empty file_urls is the one-element sequence holding
\* exactly pdf_url.
C1_FileUrlsMatchPdfUrl ==
    \A it \in Emitted :
        /\ it.file_urls # << >> <=> it.pdf_url # ""
        /\ it.file_urls # << >> => it.file_urls = << it.pdf_url >>

\* C1 witness: an NDSS run has emitted an item with a PDF and one without.
C1_Witness ==
    /\ argv.name = "ndss"
    /\ \E a, b \in Emitted :
          /\ a.pdf_url = "" /\ a.file_urls = << >>
          /\ b.pdf_url # "" /\ b.file_urls = << b.pdf_url >>

\* The hrefs, in document order, of the button-link anchors of an NDSS landing
\* page whose normalized text is the year.
YearLinks(page, year) ==
    Concat([i \in 1..Len(page.anchors) |->
               IF /\ Contains(page.anchors[i].class, "wp-block-button__link")
                  /\ NormalizeSpace(page.anchors[i].text) = year
               THEN page.anchors[i].href ELSE << >>])

\* The year link cannot be resolved: no such anchor, or the first has an empty href.
YearLinkUnresolved(page, year) ==
    YearLinks(page, year) = << >> \/ YearLinks(page, year)[1] = ""

\* The detail links of an NDSS list page: the primary selector's, and the
\* fallback selector's when the primary one finds none.
PrimaryLinks(page) ==
    Concat([i \in 1..Len(page.anchors) |->
               IF page.anchors[i].class = "paper-link-abs" THEN page.anchors[i].href ELSE << >>])

FallbackLinks(page) ==
    Concat([i \in 1..Len(page.anchors) |->
               IF page.anchors[i].strong = << "Read More" >> THEN page.anchors[i].href ELSE << >>])

DetailLinks(page) == IF PrimaryLinks(page) # << >> THEN PrimaryLinks(page) ELSE FallbackLinks(page)

\* The Accepted Papers links of an NDSS year page, in document order.
AcceptedLinks(page) ==
    Concat([i \in 1..Len(page.anchors) |->
               IF /\ page.anchors[i].strong # << >>
                  /\ Contains(page.anchors[i].strong[1], "Accepted Papers")
               THEN page.anchors[i].href ELSE << >>])

\* The first Accepted Papers link is missing or empty.
AcceptedLinkUnresolved(page) ==
    AcceptedLinks(page) = << >> \/ AcceptedLinks(page)[1] = ""

\* C2: in NDSSSpider, when a required navigational link cannot be resolved
\* (parse finds no year link on the landing page; the list-page stage, run by
\* parse_paper_list or by parse_year_page on a year page without an Accepted
\* Papers link, finds no detail link with either selector), the call yields no
\* request and no item and raises no exception.
C2_UnresolvedLinkEndsBranch ==
    handled # None =>
        LET call == handled[1]
            page == call.response.page
            dead == \/ /\ call.callback = "NDSSSpider.parse"
                       /\ YearLinkUnresolved(page, spider[1].year)
                    \/ /\ call.callback = "NDSSSpider.parse_paper_list"
                       /\ PrimaryLinks(page) = << >> /\ FallbackLinks(page) = << >>
                    \/ /\ call.callback = "NDSSSpider.parse_year_page"
                       /\ AcceptedLinkUnresolved(page)
                       /\ PrimaryLinks(page) = << >> /\ FallbackLinks(page) = << >>
        IN  dead => /\ yielded.reqs = << >>
                    /\ yielded.items = << >>
                    /\ ~yielded.raised
                    /\ "error" \in {yielded.log[i] : i \in 1..Len(yielded.log)}

\* C2 witness: parse has handled a landing page that has anchors, none of them
\* for the configured year, and nothing is pending or emitted.
C2_Witness ==
    /\ Called("NDSSSpider.parse")
    /\ handled[1].response.page.anchors # << >>
    /\ YearLinkUnresolved(handled[1].response.page, spider[1].year)
    /\ yielded.reqs = << >>
    /\ pending = EmptyBag /\ items = EmptyBag

\* C3: in NDSSSpider, when parse_year_page finds no Accepted Papers link on the
\* year page, it yields no request for the list-page stage and yields exactly
\* what parse_paper_list yields on that same response: one request for
\* parse_paper_details per detail link of the page; when the link is found,
\* it yields one request only, of that link, for parse_paper_list.
C3_YearPageFallsBackToList ==
    Called("NDSSSpider.parse_year_page") =>
        LET call == handled[1]
            resp == call.response
            list == NDSSSpider_parse_paper_list(spider[1], resp)
        IN  IF AcceptedLinkUnresolved(resp.page)
            THEN /\ yielded.reqs = list.reqs
                 /\ yielded.items = list.items
                 /\ Len(yielded.reqs) = Len(DetailLinks(resp.page))
                 /\ \A i \in 1..Len(yielded.reqs) :
                       /\ yielded.reqs[i].callback = "NDSSSpider.parse_paper_details"
                       /\ yielded.reqs[i].url = Urljoin(resp.url, DetailLinks(resp.page)[i])
            ELSE /\ Len(yielded.reqs) = 1
                 /\ yielded.reqs[1].callback = "NDSSSpider.parse_paper_list"
                 /\ yielded.reqs[1].url = Urljoin(resp.url, AcceptedLinks(resp.page)[1])
                 /\ yielded.items = << >>

\* C3 witness: parse_year_page has handled a year page without an Accepted
\* Papers link and with two detail links, and both detail requests are pending.
C3_Witness ==
    /\ Called("NDSSSpider.parse_year_page")
    /\ AcceptedLinks(handled[1].response.page) = << >>
    /\ Len(yielded.reqs) = 2
    /\ BagCardinality(pending) = 2
    /\ \A r \in BagToSet(pending) : r.callback = "NDSSSpider.parse_paper_details"

\* The presentation links of an OSDI page, in document order.
PresentationLinks(page) ==
    SelectSeq(page.hrefs, LAMBDA h : Contains(h, "/presentation"))

\* The text of an optional piece of markup: '' when it is missing.
TextOf(markup) == IF markup = << >> THEN "" ELSE StripTags(markup[1])

\* C4: in OsdiSpider, parse on a session page with no presentation link
\* yields no request and exactly one item, built from that page's own
\* citation meta tags, with abstract_url the page's URL; on a page with at
\* least one presentation link it yields no item and exactly one request for
\* parse_paper per link found.
C4_SessionPageIsPaperPage ==
    Called("OsdiSpider.parse") =>
        LET call  == handled[1]
            resp  == call.response
            links == PresentationLinks(resp.page)
        IN  IF links = << >>
            THEN /\ yielded.reqs = << >>
                 /\ Len(yielded.items) = 1
                 /\ yielded.items[1].abstract_url = resp.url
                 /\ yielded.items[1].title = TextOf(resp.page.citation_title)
                 /\ yielded.items[1].authors = Join(", ", resp.page.citation_author)
                 /\ yielded.items[1].abstract = TextOf(resp.page.description)
                 /\ yielded.items[1].pdf_url =
                        (IF resp.page.citation_pdf_url = << >> THEN ""
                         ELSE resp.page.citation_pdf_url[1])
            ELSE /\ yielded.items = << >>
                 /\ Len(yielded.reqs) = Len(links)
                 /\ \A i \in 1..Len(links) :
                       /\ yielded.reqs[i].url = Urljoin(resp.url, links[i])
                       /\ yielded.reqs[i].callback = "OsdiSpider.parse_paper"

\* C4 witness: parse has handled the session page itself as a paper page with
\* a title, and its item is emitted.
C4_Witness ==
    /\ Called("OsdiSpider.parse")
    /\ PresentationLinks(handled[1].response.page) = << >>
    /\ handled[1].response.page.hrefs # << >>
    /\ Len(yielded.items) = 1
    /\ yielded.items[1].title # ""
    /\ BagIn(yielded.items[1], items)

\* C5: in UsenixSpider, every call of parse_presentation yields exactly one
\* item and no request, also when the page has neither a citation_pdf_url
\* meta tag with content nor a final-paper download link; in that case the
\* item has pdf_url = '' and file_urls = [].
C5_PresentationAlwaysEmits ==
    Called("UsenixSpider.parse_presentation") =>
        LET call == handled[1]
            page == call.response.page
        IN  /\ Len(yielded.items) = 1
            /\ yielded.reqs = << >>
            /\ BagIn(yielded.items[1], items)
            /\ ( /\ ~Truthy(Get(page.citation_pdf_url))
                 /\ ~Truthy(Get(page.final_paper_pdf_href)) )
               => yielded.items[1].pdf_url = "" /\ yielded.items[1].file_urls = << >>

\* C5 witness: parse_presentation has handled a page with neither PDF link and
\* the item, with its title carried from the listing, is emitted.
C5_Witness ==
    /\ Called("UsenixSpider.parse_presentation")
    /\ handled[1].response.page.citation_pdf_url = << >>
    /\ handled[1].response.page.final_paper_pdf_href = << >>
    /\ Len(yielded.items) = 1
    /\ yielded.items[1].pdf_url = ""
    /\ yielded.items[1].title # ""

\* C6: for every spider, source_url is one constant tag: any two items of a
\* run carry the same source_url, whatever pages they were extracted from.
C6_SourceUrlIsOneTag ==
    \A a, b \in Emitted : a.source_url = b.source_url

\* C7: NDSSSpider constructed with the year omitted or empty raises at
\* construction, and that run never has a spider, a request, a callback call
\* or an item; OsdiSpider constructed with the year omitted is constructed,
\* with year '2023'.
C7_MissingYearFailsConstruction ==
    /\ (argv.name = "ndss" /\ ~Truthy(argv.year)) =>
          /\ phase \in {"new", "failed"}
          /\ spider = None
          /\ pending = EmptyBag /\ items = EmptyBag /\ handled = None
    /\ (argv.name = "osdi" /\ argv.year = None /\ phase # "new") =>
          /\ phase # "failed"
          /\ spider # None /\ spider[1].year = "2023"

\* C7 witness: the construction of NDSSSpider with an empty year has raised.
C7_Witness ==
    argv.name = "ndss" /\ argv.year = << "" >> /\ phase = "failed"

\* A USENIX paper block has a detail link.
HasDetailLink(paper) == paper.h2_a_href # << >> /\ paper.h2_a_href[1] # ""

\* The four fields of rec (an item, or the context a request carries) are the
\* values of the listed block l: the texts of its title, people and
\* description markup ('' for one it lacks) and its absolute detail URL.
FromBlock(rec, l) ==
    /\ HasDetailLink(l.paper)
    /\ rec.title = TextOf(l.paper.h2_a_text)
    /\ rec.authors = TextOf(l.paper.people_p)
    /\ rec.abstract = TextOf(l.paper.description_p)
    /\ rec.abstract_url = Urljoin(l.url, l.paper.h2_a_href[1])

\* C8: in UsenixSpider, in whatever order the framework answers the listing
\* and detail requests, the title, authors, abstract and abstract_url of every
\* emitted item, and of the context of every pending detail request, are
\* together the values of one block that parse has gone through (an empty
\* string for a field the block lacks); the yielded item takes them from the
\* context of its response, and only pdf_url and file_urls from the page.
C8_ItemCarriesItsBlock ==
    argv.name = "usenix" =>
        /\ \A it \in Emitted : \E l \in listed : FromBlock(it, l)
        /\ \A req \in BagToSet(pending) :
              req.callback = "UsenixSpider.parse_presentation" =>
                  \E l \in listed : FromBlock(req.meta, l) /\ req.url = req.meta.abstract_url
        /\ Called("UsenixSpider.parse_presentation") =>
              \A i \in 1..Len(yielded.items) :
                  LET it == yielded.items[i]
                      m  == handled[1].response.meta
                  IN  /\ it.title = m.title /\ it.authors = m.authors
                      /\ it.abstract = m.abstract /\ it.abstract_url = m.abstract_url

\* C8 witness: the item of the block with an empty description container is
\* emitted, with its title and authors and an empty abstract, while the
\* request of another block of the same detail page is still pending.
C8_Witness ==
    /\ argv.name = "usenix"
    /\ \E it \in Emitted :
          /\ it.title = "Paper Two" /\ it.authors = "Bob B." /\ it.abstract = ""
          /\ \E req \in BagToSet(pending) :
                /\ req.callback = "UsenixSpider.parse_presentation"
                /\ req.url = it.abstract_url
                /\ req.meta.title = "Paper One"
                /\ req.meta.abstract = "We study one."

\* C9: in UsenixSpider, parse on a listing page yields no item and exactly
\* one request per block that has a detail link, in the blocks' order, each
\* for parse_presentation at the block's absolute detail URL with the block's
\* context, and none for a block without one: the requests are those of the
\* page with such blocks left out.  No emitted item is at the detail URL of
\* a block without a detail link.
C9_OneFetchPerLinkedBlock ==
    /\ Called("UsenixSpider.parse") =>
          LET call   == handled[1]
              resp   == call.response
              linked == SelectSeq(resp.page.papers, HasDetailLink)
          IN  /\ yielded.items = << >>
              /\ Len(yielded.reqs) = Len(linked)
              /\ \A k \in 1..Len(linked) :
                    /\ yielded.reqs[k].callback = "UsenixSpider.parse_presentation"
                    /\ yielded.reqs[k].url = Urljoin(resp.url, linked[k].h2_a_href[1])
                    /\ FromBlock(yielded.reqs[k].meta, [url |-> resp.url, paper |-> linked[k]])
    /\ argv.name = "usenix" =>
          \A it \in Emitted :
              \E l \in listed : /\ HasDetailLink(l.paper)
                                /\ it.abstract_url = Urljoin(l.url, l.paper.h2_a_href[1])
                                /\ it.title = TextOf(l.paper.h2_a_text)

\* C9 witness: parse has handled a listing page whose first block has no
\* detail link and whose second has one, and yielded the one request.
C9_Witness ==
    /\ Called("UsenixSpider.parse")
    /\ Len(handled[1].response.page.papers) = 2
    /\ ~HasDetailLink(handled[1].response.page.papers[1])
    /\ HasDetailLink(handled[1].response.page.papers[2])
    /\ Len(yielded.reqs) = 1
    /\ yielded.log = << "warning" >>

\* The callbacks of the detail stage.
DetailCallbacks ==
    {"NDSSSpider.parse_paper_details", "OsdiSpider.parse_paper",
     "UsenixSpider.parse_presentation"}

\* The longest chain of fetches from a seed: landing, year, list and detail
\* page for NDSSSpider; listing and detail page for the other two.
ChainLimit(name) == IF name = "ndss" THEN 4 ELSE 2

\* No chain of fetches is longer than the spider's limit, and a detail-stage
\* callback yields no request.
ChainsBounded ==
    /\ \A req \in BagToSet(pending) : req.depth <= ChainLimit(argv.name)
    /\ handled # None =>
          /\ handled[1].depth <= ChainLimit(argv.name)
          /\ handled[1].callback \in DetailCallbacks => yielded.reqs = << >>

\* C10: every run of every spider finishes, whatever the pages hold and link
\* to, given that the framework in the end answers or gives up every request
\* issued: the detail-stage callbacks yield no request, so no chain of fetches
\* from a seed is longer than 4 (NDSSSpider) or 2 (OsdiSpider, UsenixSpider),
\* and in the end nothing is pending, for good.
C10_EveryRunFinishes == []ChainsBounded /\ <>[]Finished

\* C10 witness: an NDSS run has finished after a detail page at the end of a
\* chain of four fetches yielded its item.
C10_Witness ==
    /\ argv.name = "ndss"
    /\ Finished
    /\ Called("NDSSSpider.parse_paper_details")
    /\ handled[1].depth = 4
    /\ items # EmptyBag

=============================================================================
